---- MODULE Spec2Model ----
(***************************************************************************)
(* A model of docs/api/examples/python-client.py: OpenDataAPIClient, the   *)
(* retry wrapper fetch_with_retry, the batch fetcher fetch_multiple_data   *)
(* and CachedDataFetcher.  The server is the environment: every request of *)
(* the client is answered by a response drawn from a finite set.           *)
(*                                                                         *)
(* Python values are modelled as follows.  Strings (tokens, ETags,         *)
(* payloads) are TLA+ strings, None among them is the string "None", and   *)
(* the empty JSON object (a falsy payload) is the string "{}".  Optional   *)
(* integers use NoneInt for None.  A header value is the sequence of its   *)
(* decimal digits, which int() parses.  A JSON body is a record            *)
(* [json, obj]: json says whether response.json() parses it, obj is the    *)
(* parsed object, a function from its keys.                                *)
(***************************************************************************)
EXTENDS Integers, Sequences, FiniteSets, TLC

\* ------------------------------------------------------------ bounds
MaxRetries == 3      \* fetch_with_retry is called with max_retries in 1..MaxRetries
MaxPaths   == 3      \* fetch_multiple_data is called with 0..MaxPaths paths
MaxBatch   == 2      \* ... and with batch_size in 1..MaxBatch

\* ------------------------------------------------------------ values
None     == "None"
NoneInt  == -1
EmptyObj == "{}"

\* Python truthiness of the string-like values of the model.
Truthy(x) == x \notin {None, "", EmptyObj}

\* int(s) for a header value s, a non-empty sequence of decimal digits.
RECURSIVE int(_)
int(s) == IF Len(s) = 1 THEN s[1]
          ELSE 10 * int(SubSeq(s, 1, Len(s) - 1)) + s[Len(s)]

\* datetime.fromtimestamp(n): the instant n seconds after the epoch, which the
\* model identifies with n.
fromtimestamp(n) == n

DefaultRetryAfter == 60
LowHeadroom       == 10
PauseSeconds      == 5

\* ------------------------------------------------------------ the server
Paths    == {"p1", "p2", "p3"}

Unparseable == [json |-> FALSE, obj |-> <<>>]
Json(o)     == [json |-> TRUE, obj |-> o]

DataBody(d, e) == Json([data |-> d, metadata |-> [etag |-> e]])
DataBodies == {DataBody("v1", "e1"), DataBody("v2", "e2"), DataBody(EmptyObj, "e3")}
TokenBody  == Json([access_token |-> "a2", refresh_token |-> "r2"])
ErrorBodies == {Json([detail |-> "detail", type |-> "problem"]), Unparseable}
TitleBody   == Json([title |-> "title"])

RateHeaderNames == {"X-RateLimit-Limit", "X-RateLimit-Remaining", "X-RateLimit-Reset"}
\* Which of the three headers a response carries: none, the remaining count
\* alone, the two others alone, or all of them.
RateHeaderSubsets == {{}, {"X-RateLimit-Remaining"},
                      {"X-RateLimit-Limit", "X-RateLimit-Reset"}, RateHeaderNames}
RateHeaderValues ==
  { [n \in RateHeaderNames |->
        CASE n = "X-RateLimit-Limit"     -> <<1, 0, 0>>
          [] n = "X-RateLimit-Remaining" -> r
          [] n = "X-RateLimit-Reset"     -> <<6, 0>>] : r \in {<<9>>, <<1, 0>>} }
RateHeaders == { [n \in S |-> v[n]] : S \in RateHeaderSubsets, v \in RateHeaderValues }

WithRetryAfter(h, v) == [n \in DOMAIN h \cup {"Retry-After"} |->
                            IF n = "Retry-After" THEN v ELSE h[n]]

WithRateHeaders(h, r) == [n \in DOMAIN h \cup DOMAIN r |->
                             IF n \in DOMAIN r THEN r[n] ELSE h[n]]

\* A response: its status, its body, its Retry-After header if any and its
\* rate-limit headers.
Response(s, b, h) == [status |-> s, headers |-> h, body |-> b]

\* session.request raises instead of returning a response (a connection error, a
\* timeout): status 0 stands for no response.
NoResponse == Response(0, Unparseable, <<>>)

\* Responses without rate-limit headers: every status the client tells apart,
\* with a body that parses and one that does not, a 429 with and without
\* Retry-After, and no response at all.
PlainResponses ==
  { NoResponse }
  \cup { Response(200, b, <<>>) : b \in DataBodies \cup {TokenBody, Unparseable} }
  \cup { Response(s, Unparseable, <<>>) : s \in {204, 304} }
  \cup { Response(s, b, <<>>) : s \in {401, 404, 429}, b \in ErrorBodies }
  \cup { Response(500, b, <<>>) : b \in ErrorBodies \cup {TitleBody} }
  \cup { Response(429, b, WithRetryAfter(<<>>, <<7>>)) : b \in ErrorBodies }
  \cup { Response(429, Unparseable, WithRetryAfter(<<>>, <<0, 3>>)) }

\* The responses the server may give: the plain ones, and a success and a
\* rate-limit refusal carrying each combination of rate-limit headers.
Responses ==
  PlainResponses
  \cup { Response(r.status, r.body, WithRateHeaders(r.headers, h)) :
            r \in { Response(200, DataBody("v1", "e1"), <<>>),
                    Response(429, Unparseable, WithRetryAfter(<<>>, <<7>>)) },
            h \in RateHeaders }

\* ------------------------------------------------------------ errors
Exc(cls, msg, status, type, retry) ==
  [cls |-> cls, message |-> msg, status_code |-> status,
   error_type |-> type, retry_after |-> retry]
NoExc == Exc("NoExc", "", NoneInt, "", NoneInt)

OpenDataAPIError(msg, status, type) == Exc("OpenDataAPIError", msg, status, type, NoneInt)
RateLimitError(msg, retry) == Exc("RateLimitError", msg, 429, "rate-limit-exceeded", retry)
\* Errors of the runtime and of the libraries, which carry no status code.
OtherError(cls) == Exc(cls, cls, NoneInt, "", NoneInt)

\* isinstance(e, OpenDataAPIError): RateLimitError is a subclass.
IsOpenDataAPIError(e) == e.cls \in {"OpenDataAPIError", "RateLimitError"}
IsRateLimitError(e)   == e.cls = "RateLimitError"

\* ------------------------------------------------------------ the client
VARIABLES access_token, refresh_token, rate_limit,   \* OpenDataAPIClient
          cache,                                     \* CachedDataFetcher.cache
          last,                                      \* the last call and its outcome
          pc, call, attempt, results, events         \* a wrapper call in progress

client == <<access_token, refresh_token, rate_limit>>
loop   == <<pc, call, attempt, results, events>>
vars   == <<access_token, refresh_token, rate_limit, cache, last, pc, call, attempt,
            results, events>>

\* _update_rate_limit forgetting the fields whose header is absent.
update_rate_limit_overwrite(rl, headers) ==
  [limit     |-> IF "X-RateLimit-Limit" \in DOMAIN headers
                 THEN int(headers["X-RateLimit-Limit"]) ELSE NoneInt,
   remaining |-> IF "X-RateLimit-Remaining" \in DOMAIN headers
                 THEN int(headers["X-RateLimit-Remaining"]) ELSE NoneInt,
   reset     |-> IF "X-RateLimit-Reset" \in DOMAIN headers
                 THEN fromtimestamp(int(headers["X-RateLimit-Reset"])) ELSE NoneInt]

\* OpenDataAPIClient._update_rate_limit: the state after merging the headers.
update_rate_limit(rl, headers) ==
  [limit     |-> IF "X-RateLimit-Limit" \in DOMAIN headers
                 THEN int(headers["X-RateLimit-Limit"]) ELSE rl.limit,
   remaining |-> IF "X-RateLimit-Remaining" \in DOMAIN headers
                 THEN int(headers["X-RateLimit-Remaining"]) ELSE rl.remaining,
   reset     |-> IF "X-RateLimit-Reset" \in DOMAIN headers
                 THEN fromtimestamp(int(headers["X-RateLimit-Reset"])) ELSE rl.reset]

\* requests.Response.ok: raise_for_status() raises for 400 <= status < 600 only.
ok(resp) == resp.status < 400

\* f'HTTP {response.status_code} Error'
HttpErrorMessage(status) ==
  CASE status = 304 -> "HTTP 304 Error"
    [] status = 401 -> "HTTP 401 Error"
    [] status = 404 -> "HTTP 404 Error"
    [] status = 429 -> "HTTP 429 Error"
    [] status = 500 -> "HTTP 500 Error"
    [] OTHER        -> "HTTP Error"

\* error_data.get('detail', error_data.get('title', 'Unknown error'))
error_message(resp) ==
  IF ~resp.body.json THEN HttpErrorMessage(resp.status)
  ELSE IF "detail" \in DOMAIN resp.body.obj THEN resp.body.obj.detail
  ELSE IF "title" \in DOMAIN resp.body.obj THEN resp.body.obj.title
  ELSE "Unknown error"

\* error_data.get('type', '')
error_type(resp) ==
  IF resp.body.json /\ "type" \in DOMAIN resp.body.obj THEN resp.body.obj.type ELSE ""

\* retry_after with the header ignored.
retry_after_default(resp) == DefaultRetryAfter

\* int(response.headers.get('Retry-After', 60))
retry_after(resp) ==
  IF "Retry-After" \in DOMAIN resp.headers THEN int(resp.headers["Retry-After"])
  ELSE DefaultRetryAfter

Return(is_none, obj) == [kind |-> "return", is_none |-> is_none, obj |-> obj, exc |-> NoExc]
Raise(e)             == [kind |-> "raise", is_none |-> FALSE, obj |-> <<>>, exc |-> e]

\* The outcome of OpenDataAPIClient._request on the response resp, lines 97-118.
request_outcome(resp) ==
  IF ok(resp)
  THEN IF resp.status = 204 THEN Return(TRUE, <<>>)
       ELSE IF resp.body.json THEN Return(FALSE, resp.body.obj)
       ELSE Raise(OtherError("JSONDecodeError"))
  ELSE IF resp.status = 429
       THEN Raise(RateLimitError(error_message(resp), retry_after(resp)))
       ELSE Raise(OpenDataAPIError(error_message(resp), resp.status, error_type(resp)))

\* The request OpenDataAPIClient._request sends, lines 80-92: hdrs and json are
\* the caller's keyword arguments, token is self.access_token at that moment.
request_sent(method, path, hdrs, json, token) ==
  [method |-> method, path |-> path, json |-> json,
   headers |-> [n \in DOMAIN hdrs \cup {"Content-Type"}
                        \cup (IF Truthy(token) THEN {"Authorization"} ELSE {}) |->
                  CASE n = "Content-Type"  -> "application/json"
                    [] n = "Authorization" -> token        \* 'Bearer ' + token
                    [] OTHER               -> hdrs[n]]]

\* OpenDataAPIClient._request answered by resp: the request sent, the rate-limit
\* state afterwards and the outcome.  When session.request raises, line 92, its
\* error leaves _request at once.
request(method, path, hdrs, json, token, rl, resp) ==
  IF resp = NoResponse
  THEN [sent       |-> request_sent(method, path, hdrs, json, token),
        rate_limit |-> rl,
        out        |-> Raise(OtherError("ConnectionError"))]
  ELSE [sent       |-> request_sent(method, path, hdrs, json, token),
        rate_limit |-> update_rate_limit(rl, resp.headers),
        out        |-> request_outcome(resp)]

NoHeaders == <<>>
\* No request was sent, so there is no outcome of one.
NoOutcome == [kind |-> "none", is_none |-> FALSE, obj |-> <<>>, exc |-> NoExc]

\* (data, etag) returned, or an error raised, by get_data.
ReturnData(data, etag) == [kind |-> "return", data |-> data, etag |-> etag, exc |-> NoExc]
RaiseData(e)           == [kind |-> "raise", data |-> None, etag |-> None, exc |-> e]

\* Lines 153-159 of get_data on the outcome r of its request.
get_data_outcome(r, etag) ==
  IF r.kind = "return"
  THEN IF r.is_none THEN RaiseData(OtherError("TypeError"))
       ELSE IF "data" \notin DOMAIN r.obj \/ "metadata" \notin DOMAIN r.obj
            THEN RaiseData(OtherError("KeyError"))
       ELSE ReturnData(r.obj.data, r.obj.metadata.etag)
  ELSE IF IsOpenDataAPIError(r.exc) /\ r.exc.status_code = 304
       THEN ReturnData(None, etag)
       ELSE RaiseData(r.exc)

\* OpenDataAPIClient.get_data(path, etag) answered by resp.
get_data(path, etag, token, rl, resp) ==
  LET headers == IF Truthy(etag) THEN [n \in {"If-None-Match"} |-> etag] ELSE NoHeaders
      r == request("GET", <<"/data/", path>>, headers, None, token, rl, resp)
  IN  [sent |-> <<r.sent>>, rate_limit |-> r.rate_limit, req |-> r.out,
       out |-> get_data_outcome(r.out, etag)]

\* refresh_access_token without the check of lines 126-127: the request is sent
\* whether or not a refresh token is set.
refresh_access_token_no_check(token, refresh, rl, resp) ==
  LET r == request("POST", <<"/auth/refresh">>, NoHeaders, refresh, token, rl, resp)
      replaced == /\ r.out.kind = "return"
                  /\ ~r.out.is_none
                  /\ {"access_token", "refresh_token"} \subseteq DOMAIN r.out.obj
  IN  [sent |-> <<r.sent>>, rate_limit |-> r.rate_limit, req |-> r.out,
       access_token  |-> IF replaced THEN r.out.obj.access_token ELSE token,
       refresh_token |-> IF replaced THEN r.out.obj.refresh_token ELSE refresh,
       out |-> IF r.out.kind = "return" /\ ~replaced
               THEN Raise(OtherError("KeyError")) ELSE r.out]

\* OpenDataAPIClient.refresh_access_token answered by resp: the tokens afterwards
\* too.  The two assignments of lines 133-134 run one after the other, so a body
\* without 'refresh_token' raises after access_token is replaced.
refresh_access_token(token, refresh, rl, resp) ==
  IF ~Truthy(refresh)
  THEN [sent |-> <<>>, rate_limit |-> rl, req |-> NoOutcome, access_token |-> token,
        refresh_token |-> refresh, out |-> Raise(OtherError("ValueError"))]
  ELSE LET r == request("POST", <<"/auth/refresh">>, NoHeaders, refresh, token, rl, resp)
           same == [sent |-> <<r.sent>>, rate_limit |-> r.rate_limit, req |-> r.out,
                    access_token |-> token, refresh_token |-> refresh, out |-> r.out]
       IN  IF r.out.kind = "raise" THEN same
           ELSE IF r.out.is_none
                THEN [same EXCEPT !.out = Raise(OtherError("TypeError"))]
           ELSE IF "access_token" \notin DOMAIN r.out.obj
                THEN [same EXCEPT !.out = Raise(OtherError("KeyError"))]
           ELSE IF "refresh_token" \notin DOMAIN r.out.obj
                THEN [same EXCEPT !.access_token = r.out.obj.access_token,
                                  !.out = Raise(OtherError("KeyError"))]
           ELSE [same EXCEPT !.access_token = r.out.obj.access_token,
                             !.refresh_token = r.out.obj.refresh_token]

\* OpenDataAPIClient.logout answered by resp, lines 163-165.
logout(token, refresh, rl, resp) ==
  LET r == request("POST", <<"/auth/logout">>, NoHeaders, None, token, rl, resp)
  IN  [sent |-> <<r.sent>>, rate_limit |-> r.rate_limit, req |-> r.out,
       access_token  |-> IF r.out.kind = "raise" THEN token ELSE None,
       refresh_token |-> IF r.out.kind = "raise" THEN refresh ELSE None,
       out |-> IF r.out.kind = "raise" THEN r.out ELSE Return(TRUE, <<>>)]

\* health without the finally clause: the token comes back only on success.
health_no_finally(path, token, rl, resp) ==
  LET r == request("GET", path, NoHeaders, None, None, rl, resp)
  IN  [sent |-> <<r.sent>>, rate_limit |-> r.rate_limit, req |-> r.out,
       access_token |-> IF r.out.kind = "raise" THEN None ELSE token, out |-> r.out]

\* health sending its request with the stored token in place.
health_authenticated(path, token, rl, resp) ==
  LET r == request("GET", path, NoHeaders, None, token, rl, resp)
  IN  [sent |-> <<r.sent>>, rate_limit |-> r.rate_limit, req |-> r.out,
       access_token |-> token, out |-> r.out]

\* OpenDataAPIClient.check_health and check_detailed_health answered by resp: the
\* request is built while self.access_token is None, and the finally clause puts
\* the saved token back whatever the outcome.
health(path, token, rl, resp) ==
  LET saved == token
      r == request("GET", path, NoHeaders, None, None, rl, resp)
  IN  [sent |-> <<r.sent>>, rate_limit |-> r.rate_limit, req |-> r.out,
       access_token |-> saved, out |-> r.out]

check_health(token, rl, resp)          == health(<<"/../health">>, token, rl, resp)
check_detailed_health(token, rl, resp) == health(<<"/../health/detailed">>, token, rl, resp)

\* ------------------------------------------------------------ state
NoCache   == <<>>                      \* self.cache = {}
NoCall    == [op |-> "none"]
NoLast    == [op |-> "none"]

Init ==
  /\ access_token \in {None, "a1"}
  /\ refresh_token \in {None, "r1"}
  /\ rate_limit = [limit |-> NoneInt, remaining |-> NoneInt, reset |-> NoneInt]
  /\ cache = NoCache
  /\ last = NoLast
  /\ pc = "idle"
  /\ call = NoCall
  /\ attempt = 0
  /\ results = <<>>
  /\ events = <<>>

\* What a call of the client leaves in last: the call, the response that answered
\* its request, the requests it sent, the outcome of _request and its own.
Called(op, path, etag, resp, c) ==
  [op |-> op, path |-> path, etag |-> etag, resp |-> resp,
   sent |-> c.sent, req |-> c.req, out |-> c.out]

\* ------------------------------------------------------------ calls of the client
GetData(path, etag, resp) ==
  /\ pc = "idle"
  /\ LET c == get_data(path, etag, access_token, rate_limit, resp)
     IN  /\ rate_limit' = c.rate_limit
         /\ last' = Called("get_data", path, etag, resp, c)
  /\ UNCHANGED <<access_token, refresh_token, cache, loop>>

RefreshAccessToken(resp) ==
  /\ pc = "idle"
  /\ LET c == refresh_access_token(access_token, refresh_token, rate_limit, resp)
     IN  /\ access_token' = c.access_token
         /\ refresh_token' = c.refresh_token
         /\ rate_limit' = c.rate_limit
         /\ last' = Called("refresh_access_token", None, None, resp, c)
  /\ UNCHANGED <<cache, loop>>

Logout(resp) ==
  /\ pc = "idle"
  /\ LET c == logout(access_token, refresh_token, rate_limit, resp)
     IN  /\ access_token' = c.access_token
         /\ refresh_token' = c.refresh_token
         /\ rate_limit' = c.rate_limit
         /\ last' = Called("logout", None, None, resp, c)
  /\ UNCHANGED <<cache, loop>>

CheckHealth(resp) ==
  /\ pc = "idle"
  /\ LET c == check_health(access_token, rate_limit, resp)
     IN  /\ access_token' = c.access_token
         /\ rate_limit' = c.rate_limit
         /\ last' = Called("check_health", None, None, resp, c)
  /\ UNCHANGED <<refresh_token, cache, loop>>

CheckDetailedHealth(resp) ==
  /\ pc = "idle"
  /\ LET c == check_detailed_health(access_token, rate_limit, resp)
     IN  /\ access_token' = c.access_token
         /\ rate_limit' = c.rate_limit
         /\ last' = Called("check_detailed_health", None, None, resp, c)
  /\ UNCHANGED <<refresh_token, cache, loop>>

ClientNext ==
  \/ \E etag \in {None, "e1"}, resp \in Responses : GetData("p1", etag, resp)
  \/ \E resp \in Responses : RefreshAccessToken(resp)
  \/ \E resp \in Responses : Logout(resp)
  \/ \E resp \in Responses : CheckHealth(resp)
  \/ \E resp \in Responses : CheckDetailedHealth(resp)

\* The client alone, called from outside.
SpecClient == Init /\ [][ClientNext]_vars

\* ------------------------------------------------------------ CachedDataFetcher
ReturnValue(v) == [kind |-> "return", value |-> v, exc |-> NoExc]
RaiseValue(e)  == [kind |-> "raise", value |-> None, exc |-> e]

\* self.cache.get(path, (None, None))
cache_lookup(c, path) ==
  IF path \in DOMAIN c THEN c[path] ELSE [data |-> None, etag |-> None]

\* The store keeping the ETag of the entry it overwrites.
cache_store_keep_etag(c, path, data, etag) ==
  [p \in DOMAIN c \cup {path} |->
      IF p = path THEN [data |-> data, etag |-> IF path \in DOMAIN c THEN c[path].etag ELSE etag]
      ELSE c[p]]

\* self.cache[path] = (data, etag)
cache_store(c, path, data, etag) ==
  [p \in DOMAIN c \cup {path} |->
      IF p = path THEN [data |-> data, etag |-> etag] ELSE c[p]]

\* del self.cache[path]
cache_delete(c, path) == [p \in DOMAIN c \ {path} |-> c[p]]

\* CachedDataFetcher.get dropping the entry on any API error, not on 404 only.
cache_get_evict_any(c, path, token, rl, resp) ==
  LET cached == cache_lookup(c, path)
      g == get_data(path, cached.etag, token, rl, resp)
  IN  [sent |-> g.sent, rate_limit |-> g.rate_limit,
       cache |-> IF g.out.kind = "return"
                 THEN IF g.out.data = None THEN c
                      ELSE cache_store(c, path, g.out.data, g.out.etag)
                 ELSE IF IsOpenDataAPIError(g.out.exc) /\ Truthy(cached.data)
                      THEN cache_delete(c, path)
                      ELSE c,
       out |-> IF g.out.kind = "return"
               THEN IF g.out.data = None THEN ReturnValue(cached.data)
                    ELSE ReturnValue(g.out.data)
               ELSE RaiseValue(g.out.exc)]

\* CachedDataFetcher.get(path) answered by resp, lines 289-307: the cache
\* afterwards and the outcome.
cache_get(c, path, token, rl, resp) ==
  LET cached == cache_lookup(c, path)
      g == get_data(path, cached.etag, token, rl, resp)
  IN  [sent |-> g.sent, rate_limit |-> g.rate_limit,
       cache |-> IF g.out.kind = "return"
                 THEN IF g.out.data = None THEN c
                      ELSE cache_store(c, path, g.out.data, g.out.etag)
                 ELSE IF /\ IsOpenDataAPIError(g.out.exc)
                         /\ g.out.exc.status_code = 404
                         /\ Truthy(cached.data)
                      THEN cache_delete(c, path)
                      ELSE c,
       out |-> IF g.out.kind = "return"
               THEN IF g.out.data = None THEN ReturnValue(cached.data)
                    ELSE ReturnValue(g.out.data)
               ELSE RaiseValue(g.out.exc)]

CacheGet(path, resp) ==
  /\ pc = "idle"
  /\ LET c == cache_get(cache, path, access_token, rate_limit, resp)
     IN  /\ cache' = c.cache
         /\ rate_limit' = c.rate_limit
         /\ last' = [op |-> "get", path |-> path, resp |-> resp,
                     sent |-> c.sent, out |-> c.out]
  /\ UNCHANGED <<access_token, refresh_token, loop>>

\* A client constructed with both tokens, as main() constructs it.
InitWithTokens == Init /\ access_token = "a1" /\ refresh_token = "r1"

CacheNext == \E path \in Paths, resp \in PlainResponses : CacheGet(path, resp)

\* A CachedDataFetcher over such a client, called from outside.
SpecCache == InitWithTokens /\ [][CacheNext]_vars

\* ------------------------------------------------------------ fetch_with_retry
\* What a wrapper in progress has done so far, in order.
GetEvent(n, path, g)   == [ev |-> "get_data", attempt |-> n, path |-> path,
                           sent |-> g.sent, out |-> g.out]
RefreshEvent(n, out)   == [ev |-> "refresh_access_token", attempt |-> n, out |-> out]
SleepEvent(seconds)    == [ev |-> "sleep", seconds |-> seconds]

\* retry_decision with the refresh allowed on the last attempt too.
retry_decision_last(out, n, max_retries) ==
  IF out.kind = "return" THEN "return"
  ELSE IF IsRateLimitError(out.exc) THEN "sleep"
  ELSE IF IsOpenDataAPIError(out.exc) /\ out.exc.status_code = 401 /\ n < max_retries
       THEN "refresh"
  ELSE "raise"

\* retry_decision without the refresh: a 401 is raised like any other error.
retry_decision_no_refresh(out, n, max_retries) ==
  IF out.kind = "return" THEN "return"
  ELSE IF IsRateLimitError(out.exc) THEN "sleep"
  ELSE "raise"

\* retry_decision with the rate-limit error of the last attempt raised.
retry_decision_raise_last(out, n, max_retries) ==
  IF out.kind = "return" THEN "return"
  ELSE IF IsRateLimitError(out.exc) /\ n < max_retries - 1 THEN "sleep"
  ELSE IF IsOpenDataAPIError(out.exc) /\ out.exc.status_code = 401 /\ n < max_retries - 1
       THEN "refresh"
  ELSE "raise"

\* retry_decision refreshing after any API error, not after a 401 only.
retry_decision_refresh_any(out, n, max_retries) ==
  IF out.kind = "return" THEN "return"
  ELSE IF IsRateLimitError(out.exc) THEN "sleep"
  ELSE IF IsOpenDataAPIError(out.exc) /\ n < max_retries - 1 THEN "refresh"
  ELSE "raise"

\* retry_decision without the wait: a rate-limit error is raised like any other.
retry_decision_no_sleep(out, n, max_retries) ==
  IF out.kind = "return" THEN "return"
  ELSE IF IsOpenDataAPIError(out.exc) /\ out.exc.status_code = 401 /\ n < max_retries - 1
       THEN "refresh"
  ELSE "raise"

\* What fetch_with_retry does with the outcome of get_data in iteration n of
\* range(max_retries), lines 210-225.
retry_decision(out, n, max_retries) ==
  IF out.kind = "return" THEN "return"
  ELSE IF IsRateLimitError(out.exc) THEN "sleep"
  ELSE IF IsOpenDataAPIError(out.exc) /\ out.exc.status_code = 401 /\ n < max_retries - 1
       THEN "refresh"
  ELSE "raise"

\* raise Exception(f'Failed after {max_retries} retries')
FailedAfter == OtherError("Exception")

\* The wrapper call ends with the outcome out.
Finish(out) ==
  /\ pc' = "idle"
  /\ last' = [op |-> call.op, out |-> out]
  /\ UNCHANGED <<call, attempt>>

\* The for loop goes to its next iteration, or ends and line 227 raises.
NextAttempt ==
  IF attempt + 1 < call.max_retries
  THEN pc' = "get" /\ attempt' = attempt + 1 /\ UNCHANGED <<call, last>>
  ELSE /\ pc' = "idle"
       /\ attempt' = attempt + 1
       /\ last' = [op |-> call.op, out |-> RaiseValue(FailedAfter)]
       /\ UNCHANGED call

\* fetch_with_retry(client, path, max_retries) is called.
FetchWithRetry(path, max_retries) ==
  /\ pc = "idle"
  /\ pc' = "get"
  /\ call' = [op |-> "fetch_with_retry", path |-> path, max_retries |-> max_retries]
  /\ attempt' = 0
  /\ events' = <<>>
  /\ last' = NoLast
  /\ UNCHANGED <<client, cache, results>>

\* One iteration of the loop up to the end of its get_data call, answered by
\* resp, and what follows without another request: the return, the sleep, the
\* raise.
RetryGet(resp) ==
  /\ pc = "get"
  /\ LET g == get_data(call.path, None, access_token, rate_limit, resp)
         d == retry_decision(g.out, attempt, call.max_retries)
     IN  /\ rate_limit' = g.rate_limit
         /\ CASE d = "return" ->
                   /\ events' = Append(events, GetEvent(attempt, call.path, g))
                   /\ Finish(ReturnValue(g.out.data))
              [] d = "sleep" ->
                   /\ events' = events \o <<GetEvent(attempt, call.path, g),
                                            SleepEvent(g.out.exc.retry_after)>>
                   /\ NextAttempt
              [] d = "refresh" ->
                   /\ events' = Append(events, GetEvent(attempt, call.path, g))
                   /\ pc' = "refresh"
                   /\ UNCHANGED <<call, attempt, last>>
              [] OTHER ->
                   /\ events' = Append(events, GetEvent(attempt, call.path, g))
                   /\ Finish(RaiseValue(g.out.exc))
  /\ UNCHANGED <<access_token, refresh_token, cache, results>>

\* client.refresh_access_token() of line 223, answered by resp, and the continue.
RetryRefresh(resp) ==
  /\ pc = "refresh"
  /\ LET r == refresh_access_token(access_token, refresh_token, rate_limit, resp)
     IN  /\ access_token' = r.access_token
         /\ refresh_token' = r.refresh_token
         /\ rate_limit' = r.rate_limit
         /\ events' = Append(events, RefreshEvent(attempt, r.out))
         /\ IF r.out.kind = "raise" THEN Finish(RaiseValue(r.out.exc)) ELSE NextAttempt
  /\ UNCHANGED <<cache, results>>

RetryNext ==
  \/ \E max_retries \in 1..MaxRetries : FetchWithRetry("p1", max_retries)
  \/ \E resp \in PlainResponses : RetryGet(resp)
  \/ \E resp \in PlainResponses : RetryRefresh(resp)

\* fetch_with_retry called again and again on a client constructed with or
\* without tokens.
SpecRetry == Init /\ [][RetryNext]_vars

\* ------------------------------------------------------------ fetch_multiple_data
PathNames == <<"p1", "p2", "p3", "p4", "p5">>
\* The list of the first n paths.
PathList(n) == [k \in 1..n |-> PathNames[k]]

\* The record appended to results for path, lines 250-261; str(e) is the message.
batch_result(path, out) ==
  IF out.kind = "return"
  THEN [path |-> path, data |-> out.data, etag |-> out.etag, success |-> TRUE]
  ELSE [path |-> path, error |-> out.exc.message, success |-> FALSE]

\* batch_catches for a handler of the API's errors only.
batch_catches_api_errors(e) == IsOpenDataAPIError(e)

\* except Exception, line 256: every error get_data can raise is caught.
batch_catches(e) == TRUE

\* batch_pause without the test for None.
batch_pause_unknown(rl, i, batch_size, n) ==
  rl.remaining < LowHeadroom /\ i + batch_size < n

\* The condition of lines 264-266, after the group that starts at index i of n
\* paths.
batch_pause(rl, i, batch_size, n) ==
  /\ rl.remaining # NoneInt
  /\ rl.remaining < LowHeadroom
  /\ i + batch_size < n

\* batch_slice taking every group from the head of the list.
batch_slice_from_start(paths, i, batch_size) ==
  SubSeq(paths, 1, IF batch_size < Len(paths) THEN batch_size ELSE Len(paths))

\* paths[i:i + batch_size], line 245: the group that starts at 0-based index i.
batch_slice(paths, i, batch_size) ==
  SubSeq(paths, i + 1, IF i + batch_size < Len(paths) THEN i + batch_size ELSE Len(paths))

\* The index i of range(0, len(paths), batch_size) whose group holds the path at
\* 0-based index k.
group_start(k, batch_size) == (k \div batch_size) * batch_size

\* fetch_multiple_data(client, paths, batch_size) is called; with no paths it
\* returns at once.
FetchMultipleData(paths, batch_size) ==
  /\ pc = "idle"
  /\ call' = [op |-> "fetch_multiple_data", paths |-> paths, batch_size |-> batch_size]
  /\ results' = <<>>
  /\ events' = <<>>
  /\ IF Len(paths) = 0
     THEN pc' = "idle" /\ last' = [op |-> "fetch_multiple_data", out |-> ReturnValue(<<>>)]
     ELSE pc' = "batch" /\ last' = NoLast
  /\ UNCHANGED <<client, cache, attempt>>

\* The get_data call for the next path, answered by resp, and what follows
\* without another request: the record, the pause after the last path of a group,
\* the return after the last path.
BatchGet(resp) ==
  /\ pc = "batch"
  /\ LET k     == Len(results)                       \* 0-based index of the path
         i     == group_start(k, call.batch_size)
         path  == batch_slice(call.paths, i, call.batch_size)[k - i + 1]
         n     == Len(call.paths)
         g     == get_data(path, None, access_token, rate_limit, resp)
         ends  == k + 1 = i + call.batch_size \/ k + 1 = n   \* the group ends
         pause == ends /\ batch_pause(g.rate_limit, i, call.batch_size, n)
     IN  /\ rate_limit' = g.rate_limit
         /\ IF g.out.kind = "raise" /\ ~batch_catches(g.out.exc)
            THEN /\ events' = Append(events, GetEvent(k, path, g))
                 /\ results' = results
                 /\ pc' = "idle"
                 /\ last' = [op |-> call.op, out |-> RaiseValue(g.out.exc)]
            ELSE /\ events' = events \o <<GetEvent(k, path, g)>>
                                     \o (IF pause THEN <<SleepEvent(PauseSeconds)>> ELSE <<>>)
                 /\ results' = Append(results, batch_result(path, g.out))
                 /\ IF k + 1 = n
                    THEN pc' = "idle" /\ last' = [op |-> call.op, out |-> ReturnValue(results')]
                    ELSE pc' = "batch" /\ last' = last
  /\ UNCHANGED <<access_token, refresh_token, cache, call, attempt>>

\* Responses for the batch: a success, a refusal, a rate-limit refusal and a 304,
\* each without the remaining count, with one below the threshold and with one
\* at it.
BatchResponses ==
  { Response(r.status, r.body, WithRateHeaders(r.headers, h)) :
       r \in { Response(200, DataBody("v1", "e1"), <<>>),
               Response(404, Unparseable, <<>>),
               Response(429, Unparseable, <<>>),
               Response(304, Unparseable, <<>>) },
       h \in { hh \in RateHeaders : DOMAIN hh \subseteq {"X-RateLimit-Remaining"} } }

BatchNext ==
  \/ \E n \in 0..MaxPaths, batch_size \in 1..MaxBatch :
        FetchMultipleData(PathList(n), batch_size)
  \/ \E resp \in BatchResponses : BatchGet(resp)

\* fetch_multiple_data called again and again on a client constructed with both
\* tokens.
SpecBatch == InitWithTokens /\ [][BatchNext]_vars

\* ------------------------------------------------------------ claims: the client
\* last records a call that sent a request.
Requested == last.op # "none" /\ last.sent # <<>>

\* C1: a get_data call whose response has status 304 raises nothing and returns
\* an absent value together with the validation token it was given.
C1_NotModifiedReturnsToken ==
  (last.op = "get_data" /\ last.resp.status = 304)
     => last.out = ReturnData(None, last.etag)

\* C2: on a response with status 429, _request raises the rate-limit error, with
\* status 429 and with retry_after the number in the Retry-After header, or 60
\* when the response has no such header; never the generic error.
C2_RateLimitError ==
  (Requested /\ last.resp.status = 429)
     => /\ last.req.kind = "raise"
        /\ last.req.exc.cls = "RateLimitError"
        /\ last.req.exc.status_code = 429
        /\ last.req.exc.retry_after =
              IF "Retry-After" \in DOMAIN last.resp.headers
              THEN int(last.resp.headers["Retry-After"]) ELSE 60

\* A 429 whose Retry-After header reads "03" has raised the error with 3 seconds.
C2_Witness ==
  /\ Requested
  /\ last.resp.status = 429
  /\ "Retry-After" \in DOMAIN last.resp.headers
  /\ last.resp.headers["Retry-After"] = <<0, 3>>
  /\ last.req.exc.retry_after = 3

\* C3: _request returns only on a 2xx status, and on every other status it raises
\* an OpenDataAPIError carrying that status.
C3_OnlySuccessReturns ==
  (Requested /\ last.resp # NoResponse)
     => /\ last.req.kind = "return" => last.resp.status \in 200..299
        /\ last.resp.status \notin 200..299
              => /\ last.req.kind = "raise"
                 /\ IsOpenDataAPIError(last.req.exc)
                 /\ last.req.exc.status_code = last.resp.status

\* C6: a call of check_health or check_detailed_health (the step that leaves one
\* of them in last), whether its request succeeds or fails, leaves both stored
\* tokens as they were.
C6_HealthKeepsCredentials ==
  [][last'.op \in {"check_health", "check_detailed_health"}
        => access_token' = access_token /\ refresh_token' = refresh_token]_vars

\* A health check has failed and the client still holds its access token.
C6_Witness ==
  /\ last.op \in {"check_health", "check_detailed_health"}
  /\ last.out.kind = "raise"
  /\ Truthy(access_token)
  /\ "Authorization" \notin DOMAIN last.sent[1].headers

\* ------------------------------------------------------------ claims: the cache
\* The step is a CachedDataFetcher.get of a key that has a cache entry.
GetOfCached == last'.op = "get" /\ last'.path \in DOMAIN cache

\* C4: once get(key) has stored (v, t), a get(key) answered with 304 sends t as
\* If-None-Match, returns v and leaves the entry (v, t) as it is.
C4_RoundTrip ==
  [][(GetOfCached /\ last'.resp.status = 304)
        => /\ "If-None-Match" \in DOMAIN last'.sent[1].headers
           /\ last'.sent[1].headers["If-None-Match"] = cache[last'.path].etag
           /\ last'.out = ReturnValue(cache[last'.path].data)
           /\ cache' = cache]_vars

\* C5: a get(key) that fails with a 404 error while key has a cache entry,
\* whatever its value, propagates the error and leaves no entry for key.
C5_EvictOnNotFound ==
  [][(/\ GetOfCached
      /\ last'.out.kind = "raise"
      /\ IsOpenDataAPIError(last'.out.exc)
      /\ last'.out.exc.status_code = 404)
        => last'.path \notin DOMAIN cache']_vars

\* ------------------------------------------------------------ claims: fetch_with_retry
\* A call of the wrapper op has ended; events holds what it did.
Done(op) == pc = "idle" /\ last.op = op

EventsOf(ev) == {k \in 1..Len(events) : events[k].ev = ev}

\* events[k] is a get_data attempt that failed with a 401 OpenDataAPIError.
Unauthorized(k) ==
  /\ events[k].ev = "get_data"
  /\ events[k].out.kind = "raise"
  /\ events[k].out.exc.cls = "OpenDataAPIError"
  /\ events[k].out.exc.status_code = 401

\* events[k] is an attempt of the call's iteration n.
AttemptAt(k, n) == k <= Len(events) /\ events[k].ev = "get_data" /\ events[k].attempt = n

\* If the first attempt fails with 401, the refresh succeeds and the second attempt
\* succeeds, the call returns the data of the second attempt.
SecondAttemptReturned ==
  (/\ Len(events) >= 3
   /\ Unauthorized(1)
   /\ events[2].ev = "refresh_access_token" /\ events[2].out.kind = "return"
   /\ events[3].ev = "get_data" /\ events[3].out.kind = "return")
     => last.out = ReturnValue(events[3].out.data)

\* C9 as stated: in fetch_with_retry, a get_data attempt that fails with a 401
\* while attempts remain is followed by exactly one refresh_access_token call and
\* then by another get_data attempt; and a first attempt failing with 401, a
\* refresh that succeeds and a second attempt that succeeds make the call return
\* the second attempt's data.
C9_RefreshThenRetry ==
  Done("fetch_with_retry")
     => /\ \A k \in 1..Len(events) :
             (Unauthorized(k) /\ events[k].attempt < call.max_retries - 1)
                => /\ k + 1 <= Len(events)
                   /\ events[k + 1].ev = "refresh_access_token"
                   /\ AttemptAt(k + 2, events[k].attempt + 1)
        /\ SecondAttemptReturned

\* C9 as amended: such a failed attempt is followed by exactly one
\* refresh_access_token call; if the refresh succeeds the next attempt follows it,
\* and if the refresh fails, its error ends the call with no further attempt.
C9_RefreshThenRetryUnlessRefreshFails ==
  Done("fetch_with_retry")
     => /\ \A k \in 1..Len(events) :
             (Unauthorized(k) /\ events[k].attempt < call.max_retries - 1)
                => /\ k + 1 <= Len(events)
                   /\ events[k + 1].ev = "refresh_access_token"
                   /\ IF events[k + 1].out.kind = "return"
                      THEN AttemptAt(k + 2, events[k].attempt + 1)
                      ELSE /\ Len(events) = k + 1
                           /\ last.out = RaiseValue(events[k + 1].out.exc)
        /\ SecondAttemptReturned

\* A call whose first attempt failed with 401 has refreshed the tokens and
\* returned the data of its second attempt.
C9_Witness ==
  /\ Done("fetch_with_retry")
  /\ Len(events) = 3
  /\ Unauthorized(1)
  /\ events[2].ev = "refresh_access_token" /\ events[2].out.kind = "return"
  /\ events[3].ev = "get_data" /\ events[3].out.kind = "return"
  /\ last.out = ReturnValue("v2")
  /\ access_token = "a2"

\* C10: a call of fetch_with_retry makes at most max_retries get_data calls and
\* at most max_retries - 1 refresh_access_token calls and then ends, whatever the
\* responses: the j-th get_data call is that of iteration j - 1, so the iteration
\* of a rate-limit wait is spent like that of a refresh, the loop never runs
\* past max_retries iterations, and while the call has not ended its next step
\* can be taken.
C10_BoundedAttempts ==
  call.op = "fetch_with_retry"
     => /\ Cardinality(EventsOf("get_data")) <= call.max_retries
        /\ Cardinality(EventsOf("refresh_access_token")) <= call.max_retries - 1
        /\ \A k \in EventsOf("get_data") :
              events[k].attempt = Cardinality({j \in EventsOf("get_data") : j < k})
        /\ \A k \in EventsOf("sleep") :
              /\ events[k - 1].ev = "get_data"
              /\ k < Len(events) => AttemptAt(k + 1, events[k - 1].attempt + 1)
              /\ k = Len(events) => attempt = events[k - 1].attempt + 1
        /\ attempt <= call.max_retries
        /\ pc # "idle" => attempt < call.max_retries /\ ENABLED RetryNext
        /\ attempt = call.max_retries => pc = "idle"

\* A call has used all of its three attempts, one on a refresh and one on a
\* rate-limit wait, and has ended.
C10_Witness ==
  /\ Done("fetch_with_retry")
  /\ call.max_retries = 3
  /\ Cardinality(EventsOf("get_data")) = 3
  /\ EventsOf("refresh_access_token") # {}
  /\ EventsOf("sleep") # {}
  /\ last.out = RaiseValue(FailedAfter)

\* ------------------------------------------------------------ claims: fetch_multiple_data
\* The get_data calls of the wrapper in progress, in order.
GetEvents == SelectSeq(events, LAMBDA e : e.ev = "get_data")

\* C7: a call of fetch_multiple_data never raises because a path failed, with
\* whatever error, and returns one record per path, in the order of paths: a
\* success record with the data and the ETag when get_data returned, a failure
\* record with the error's message when it raised.
C7_OneOutcomePerPath ==
  Done("fetch_multiple_data")
     => /\ last.out.kind = "return"
        /\ Len(last.out.value) = Len(call.paths)
        /\ Len(GetEvents) = Len(call.paths)
        /\ \A k \in 1..Len(call.paths) :
              LET r == last.out.value[k]
                  g == GetEvents[k]
              IN  /\ r.path = call.paths[k]
                  /\ g.path = call.paths[k]
                  /\ r.success = (g.out.kind = "return")
                  /\ r.success => r.data = g.out.data /\ r.etag = g.out.etag
                  /\ ~r.success => r.error = g.out.exc.message

\* A call on three paths has returned three records although its first path
\* failed with a rate-limit error and its second with an error of another kind.
C7_Witness ==
  /\ Done("fetch_multiple_data")
  /\ Len(call.paths) = 3
  /\ Len(last.out.value) = 3
  /\ GetEvents[1].out.kind = "raise" /\ IsRateLimitError(GetEvents[1].out.exc)
  /\ GetEvents[2].out.kind = "raise" /\ ~IsOpenDataAPIError(GetEvents[2].out.exc)
  /\ last.out.value[3].success

\* C8: the step that handles a path ends with a pause exactly when the path is
\* the last of its group, paths remain after it, and the remaining count the
\* client has last observed is known and below 10; the pause is of 5 seconds; and
\* every pause in events is followed by the first request of the next group, or
\* that request is still to come.
C8_PauseBetweenGroups ==
  [][(call'.op = "fetch_multiple_data" /\ Len(results') = Len(results) + 1)
        => LET k      == Len(results')
               n      == Len(call'.paths)
               ends   == k % call'.batch_size = 0 \/ k = n
               paused == events'[Len(events')].ev = "sleep"
           IN  /\ paused <=> /\ ends
                             /\ k < n
                             /\ rate_limit'.remaining # NoneInt
                             /\ rate_limit'.remaining < 10
               /\ paused => events'[Len(events')].seconds = 5
               /\ paused => pc' = "batch"
               /\ \A j \in 1..Len(events') :
                     (events'[j].ev = "sleep" /\ j < Len(events'))
                        => /\ events'[j + 1].ev = "get_data"
                           /\ events'[j + 1].attempt % call'.batch_size = 0]_vars

\* A call on three paths in groups of two has paused after the first group, with
\* 9 requests remaining, and has gone on to the third path.
C8_Witness ==
  /\ Done("fetch_multiple_data")
  /\ Len(call.paths) = 3 /\ call.batch_size = 2
  /\ Len(events) = 4
  /\ events[3] = SleepEvent(5)
  /\ events[4].ev = "get_data" /\ events[4].path = "p3"
  /\ Len(last.out.value) = 3

\* ------------------------------------------------------------ claims: fetch_with_retry, continued
\* events[k] is a get_data attempt that failed with a rate-limit error.
RateLimited(k) ==
  /\ events[k].ev = "get_data"
  /\ events[k].out.kind = "raise"
  /\ IsRateLimitError(events[k].out.exc)

\* The last get_data attempt of the call, 0 if it made none.
LastAttempt == IF EventsOf("get_data") = {} THEN 0
               ELSE CHOOSE k \in EventsOf("get_data") : \A j \in EventsOf("get_data") : j <= k

\* C11: a call of fetch_with_retry ends with the generic Exception of line 227
\* exactly when its loop ran out, which is exactly when its last attempt ended in
\* a rate-limit error; every earlier attempt then ended in a rate-limit error or
\* in a 401 followed by a successful refresh, and what the caller gets is that
\* Exception, not the RateLimitError.
C11_ExhaustedRetries ==
  Done("fetch_with_retry")
     => /\ (last.out.kind = "raise" /\ last.out.exc.cls = "Exception")
              <=> (LastAttempt > 0 /\ RateLimited(LastAttempt))
        /\ (last.out.kind = "raise" /\ last.out.exc.cls = "Exception")
              <=> attempt = call.max_retries
        /\ (LastAttempt > 0 /\ RateLimited(LastAttempt))
              => /\ ~IsRateLimitError(last.out.exc)
                 /\ last.out.exc.status_code = NoneInt
                 /\ events[LastAttempt].attempt = call.max_retries - 1
                 /\ \A k \in EventsOf("get_data") :
                       \/ RateLimited(k)
                       \/ /\ Unauthorized(k)
                          /\ events[k + 1].ev = "refresh_access_token"
                          /\ events[k + 1].out.kind = "return"

\* A call of three attempts has ended with the generic Exception after a 401 with
\* a successful refresh and two rate-limit errors.
C11_Witness ==
  /\ Done("fetch_with_retry")
  /\ call.max_retries = 3
  /\ Len(events) = 6
  /\ Unauthorized(1)
  /\ RateLimited(3)
  /\ RateLimited(5)
  /\ last.out.exc.cls = "Exception"

\* ------------------------------------------------------------ claims: the client, continued
\* The server answered with a success status and a body that parses.
Succeeded(resp) == resp # NoResponse /\ resp.status \in 200..299 /\ resp.body.json

\* The request failed: no response came, or one with an error status.
Failed(resp) == resp = NoResponse \/ resp.status >= 400

\* C12: refresh_access_token without a refresh token raises ValueError, sends no
\* request and leaves both tokens (and the rate-limit state) alone; with a refresh
\* token it sends that token, and when the server answers with a success carrying
\* the two tokens both stored tokens become the returned ones; when the request
\* fails both stored tokens stay as they were and the failure is raised.
C12_RefreshReplacesTokens ==
  [][last'.op = "refresh_access_token"
       => /\ ~Truthy(refresh_token)
               => /\ last'.out = Raise(OtherError("ValueError"))
                  /\ last'.sent = <<>>
                  /\ UNCHANGED <<access_token, refresh_token, rate_limit>>
          /\ Truthy(refresh_token)
               => /\ Len(last'.sent) = 1
                  /\ last'.sent[1].method = "POST"
                  /\ last'.sent[1].path = <<"/auth/refresh">>
                  /\ last'.sent[1].json = refresh_token
                  /\ (/\ Succeeded(last'.resp)
                      /\ {"access_token", "refresh_token"} \subseteq DOMAIN last'.resp.body.obj)
                        => /\ access_token' = last'.resp.body.obj.access_token
                           /\ refresh_token' = last'.resp.body.obj.refresh_token
                           /\ last'.out.kind = "return"
                  /\ Failed(last'.resp)
                        => /\ UNCHANGED <<access_token, refresh_token>>
                           /\ last'.out.kind = "raise"
                           /\ last'.out = last'.req
    ]_vars

\* A refresh answered with new tokens has replaced both stored tokens.
C12_Witness ==
  /\ last.op = "refresh_access_token"
  /\ last.resp = Response(200, TokenBody, <<>>)
  /\ last.sent # <<>>
  /\ last.sent[1].json = "r1"
  /\ last.out.kind = "return"
  /\ access_token = "a2"
  /\ refresh_token = "r2"

\* C13: logout sends its request while the tokens are still stored; when the
\* server answers with a success status, whatever the body, both stored tokens
\* are None afterwards; when the request fails the failure is raised and both
\* tokens stay as they were.
C13_LogoutClearsTokens ==
  [][last'.op = "logout"
       => /\ Len(last'.sent) = 1
          /\ last'.sent[1].path = <<"/auth/logout">>
          /\ Truthy(access_token) => /\ "Authorization" \in DOMAIN last'.sent[1].headers
                                     /\ last'.sent[1].headers["Authorization"] = access_token
          /\ (last'.resp # NoResponse /\ last'.resp.status \in 200..299)
                => /\ access_token' = None
                   /\ refresh_token' = None
          /\ Failed(last'.resp)
                => /\ last'.out.kind = "raise"
                   /\ UNCHANGED <<access_token, refresh_token>>
    ]_vars

\* The decimal number a header value spells, most significant digit first.
RECURSIVE Decimal(_)
Decimal(ds) == IF ds = <<>> THEN 0
               ELSE 10 * Decimal(SubSeq(ds, 1, Len(ds) - 1)) + ds[Len(ds)]

\* The value of one field of the rate-limit state after a response with headers
\* h: the header's number if the response carries the header, else the old value.
Merged(h, name, old) == IF name \in DOMAIN h THEN Decimal(h[name]) ELSE old

\* C14: every call of the client that received a response, with whatever status,
\* leaves in each field of rate_limit the number of that response's header when
\* the response carries it and the field's previous value when it does not; a
\* call that received no response leaves rate_limit as it was.
C14_RateLimitMerged ==
  [][last'.op # "none"
       => IF last'.sent # <<>> /\ last'.resp # NoResponse
          THEN /\ rate_limit'.limit =
                    Merged(last'.resp.headers, "X-RateLimit-Limit", rate_limit.limit)
               /\ rate_limit'.remaining =
                    Merged(last'.resp.headers, "X-RateLimit-Remaining", rate_limit.remaining)
               /\ rate_limit'.reset =
                    Merged(last'.resp.headers, "X-RateLimit-Reset", rate_limit.reset)
          ELSE UNCHANGED rate_limit
    ]_vars

\* An error response carrying the remaining count alone has changed that field
\* and kept the limit and the reset time of an earlier response.
C14_Witness ==
  /\ Requested
  /\ last.resp.status = 429
  /\ last.req.kind = "raise"
  /\ DOMAIN last.resp.headers \cap RateHeaderNames = {"X-RateLimit-Remaining"}
  /\ last.resp.headers["X-RateLimit-Remaining"] = <<9>>
  /\ rate_limit = [limit |-> 100, remaining |-> 9, reset |-> 60]

\* ------------------------------------------------------------ claims: fetch_with_retry, propagation
\* events[k] is a get_data attempt that failed with an OpenDataAPIError which is
\* neither a rate-limit error nor a 401 with attempts left.
Terminal(k) ==
  /\ events[k].ev = "get_data"
  /\ events[k].out.kind = "raise"
  /\ IsOpenDataAPIError(events[k].out.exc)
  /\ ~IsRateLimitError(events[k].out.exc)
  /\ \/ events[k].out.exc.status_code # 401
     \/ events[k].attempt = call.max_retries - 1

\* C15: in fetch_with_retry an OpenDataAPIError that is neither a RateLimitError
\* nor a 401, and a 401 of the last attempt, ends the call at once with that very
\* error: nothing follows the failed attempt, no refresh, no sleep, no attempt.
C15_OtherErrorsPropagate ==
  call.op = "fetch_with_retry"
     => \A k \in 1..Len(events) :
           Terminal(k) => /\ k = Len(events)
                          /\ pc = "idle"
                          /\ last.op = "fetch_with_retry"
                          /\ last.out = RaiseValue(events[k].out.exc)

\* A call of two attempts has ended with the 401 of its second attempt, after the
\* 401 of the first one was answered by a refresh.
C15_Witness ==
  /\ Done("fetch_with_retry")
  /\ call.max_retries = 2
  /\ Len(events) = 3
  /\ Unauthorized(1)
  /\ events[2].ev = "refresh_access_token"
  /\ Unauthorized(3)
  /\ Terminal(3)
  /\ last.out = RaiseValue(events[3].out.exc)

\* events[k + 1] is the sleep of the retry_after seconds of the rate-limit error
\* of events[k].
SleepsAfter(k) ==
  /\ k + 1 <= Len(events)
  /\ events[k + 1].ev = "sleep"
  /\ events[k + 1].seconds = events[k].out.exc.retry_after

\* C16: in a call of fetch_with_retry every get_data attempt that failed with a
\* rate-limit error is followed by a sleep of that error's retry_after seconds and
\* then by another get_data attempt, with no refresh in between.
C16_SleepThenRetry ==
  Done("fetch_with_retry")
     => \A k \in 1..Len(events) :
           RateLimited(k) => /\ SleepsAfter(k)
                             /\ AttemptAt(k + 2, events[k].attempt + 1)

\* C16 as amended: the sleep always follows; the next attempt follows the sleep
\* when the failed attempt was not the last one, and after the last one the call
\* ends with the generic Exception and no further attempt.
C16_SleepThenRetryWhileAttemptsRemain ==
  call.op = "fetch_with_retry"
     => \A k \in 1..Len(events) :
           RateLimited(k)
              => /\ SleepsAfter(k)
                 /\ IF events[k].attempt < call.max_retries - 1
                    THEN IF k + 1 = Len(events)
                         THEN pc = "get" /\ attempt = events[k].attempt + 1
                         ELSE AttemptAt(k + 2, events[k].attempt + 1)
                    ELSE /\ Len(events) = k + 1
                         /\ pc = "idle"
                         /\ last.out.kind = "raise"
                         /\ last.out.exc.cls = "Exception"

\* A call of two attempts has slept 7 seconds after its first rate-limit error,
\* tried again, and slept 3 seconds after its second one before it failed.
C16_Witness ==
  /\ Done("fetch_with_retry")
  /\ call.max_retries = 2
  /\ Len(events) = 4
  /\ RateLimited(1) /\ events[1].out.exc.retry_after = 7
  /\ events[2] = SleepEvent(7)
  /\ RateLimited(3) /\ events[3].out.exc.retry_after = 3
  /\ events[4] = SleepEvent(3)
  /\ last.out.exc.cls = "Exception"

\* ------------------------------------------------------------ claims: the cache, continued
\* What the get_data call of the step's CachedDataFetcher.get came to.
GetDataOfStep ==
  get_data(last'.path, cache_lookup(cache, last'.path).etag,
           access_token, rate_limit, last'.resp).out

\* C17: a CachedDataFetcher.get that fails with anything but a 404 error raises
\* the very error its get_data call raised (for an error status, an API error
\* carrying that status) and leaves the whole cache as it was.
C17_OtherErrorsKeepCache ==
  [][(/\ last'.op = "get"
      /\ last'.out.kind = "raise"
      /\ ~(IsOpenDataAPIError(last'.out.exc) /\ last'.out.exc.status_code = 404))
        => /\ cache' = cache
           /\ last'.out = RaiseValue(GetDataOfStep.exc)
           /\ Failed(last'.resp) /\ last'.resp # NoResponse
                 => /\ IsOpenDataAPIError(last'.out.exc)
                    /\ last'.out.exc.status_code = last'.resp.status
    ]_vars

\* A get of a cached key has failed with a 500 error while another key was
\* cached too, and both entries are still there.
C17_Witness ==
  /\ last.op = "get"
  /\ last.path = "p1"
  /\ last.out.kind = "raise"
  /\ last.out.exc.status_code = 500
  /\ DOMAIN cache = {"p1", "p2"}
  /\ cache["p1"] = [data |-> "v1", etag |-> "e1"]
  /\ "If-None-Match" \in DOMAIN last.sent[1].headers

\* ------------------------------------------------------------ claims: the client, authorization
\* C18: a request sent by get_data, refresh_access_token or logout carries an
\* Authorization header exactly when an access token is stored when the call is
\* made, and the header holds that token; a request sent by check_health or
\* check_detailed_health carries none, whether or not a token is stored.
C18_BearerWhenTokenStored ==
  [][(last'.op # "none" /\ last'.sent # <<>>)
       => /\ Len(last'.sent) = 1
          /\ IF last'.op \in {"check_health", "check_detailed_health"}
             THEN "Authorization" \notin DOMAIN last'.sent[1].headers
             ELSE /\ "Authorization" \in DOMAIN last'.sent[1].headers
                        <=> access_token # None
                  /\ access_token # None
                        => last'.sent[1].headers["Authorization"] = access_token
    ]_vars

\* A health check by a client holding a refreshed token was sent without the
\* header and has returned.
C18_Witness ==
  /\ last.op = "check_health"
  /\ last.sent # <<>>
  /\ last.out.kind = "return"
  /\ access_token = "a2"
  /\ DOMAIN last.sent[1].headers = {"Content-Type"}

\* The response carries fresh data: a success with a data payload and its ETag.
Fresh(resp) ==
  /\ Succeeded(resp)
  /\ {"data", "metadata"} \subseteq DOMAIN resp.body.obj

\* C19: the cache starts empty, and a CachedDataFetcher.get(key) touches the entry
\* of key alone: it sends the ETag of key's own entry (none without an entry),
\* leaves the entry of every other key as it was, makes key's entry the
\* (data, ETag) pair of its response when that carries fresh data, leaves key
\* with the entry it had, or with none, when it does not, and removes an entry
\* only on a 404 error.  So an entry is always the pair of the latest fresh
\* response for its key since the key's last eviction.
C19_CachePerKey ==
  /\ cache = NoCache
  /\ [][last'.op = "get"
          => LET key == last'.path
                 resp == last'.resp
             IN  /\ \A q \in Paths \ {key} :
                       /\ q \in DOMAIN cache' <=> q \in DOMAIN cache
                       /\ q \in DOMAIN cache => cache'[q] = cache[q]
                 /\ "If-None-Match" \in DOMAIN last'.sent[1].headers
                       <=> key \in DOMAIN cache
                 /\ key \in DOMAIN cache
                       => last'.sent[1].headers["If-None-Match"] = cache[key].etag
                 /\ IF Fresh(resp)
                    THEN /\ key \in DOMAIN cache'
                         /\ cache'[key] = [data |-> resp.body.obj.data,
                                           etag |-> resp.body.obj.metadata.etag]
                         /\ last'.out = ReturnValue(resp.body.obj.data)
                    ELSE /\ key \in DOMAIN cache' => key \in DOMAIN cache
                         /\ key \in DOMAIN cache'   => cache'[key] = cache[key]
                         /\ (key \in DOMAIN cache /\ key \notin DOMAIN cache')
                               => /\ last'.out.kind = "raise"
                                  /\ last'.out.exc.status_code = 404
     ]_vars

\* The entry of a key cached as (v1, e1) has been overwritten by the fresh
\* response (v2, e2) to a get that sent e1, next to the entry of another key.
C19_Witness ==
  /\ last.op = "get"
  /\ last.path = "p1"
  /\ last.resp = Response(200, DataBody("v2", "e2"), <<>>)
  /\ "If-None-Match" \in DOMAIN last.sent[1].headers
  /\ last.sent[1].headers["If-None-Match"] = "e1"
  /\ DOMAIN cache = {"p1", "p2"}
  /\ cache["p1"] = [data |-> "v2", etag |-> "e2"]
  /\ cache["p2"] = [data |-> EmptyObj, etag |-> "e3"]


====
